---- MODULE Spec2Model ----
(***************************************************************************)
(* Model of src/src/main.rs of ahc_score_visualizer: the two-stage         *)
(* evaluation pipeline (a rayon pool of scorers feeding an mpsc channel,   *)
(* drained by a single consumer that visualizes, then sorts and sums).     *)
(*                                                                         *)
(* Strings are sequences of one-character strings, so that the string      *)
(* operations of the program (split, starts_with, trim_start_matches,      *)
(* replace, parse, format) are computed and not assumed.                   *)
(***************************************************************************)
EXTENDS Integers, Sequences, FiniteSets, TLC

\* ------------------------------------------------------------------ bounds

\* Width of usize in the model. The program's usize is 64 bits wide; TLC's
\* integers are 32 bits wide, so the width is scaled down. Every use goes
\* through UsizeMax / UsizeModulus.
UsizeBits == 8

\* Largest number of input files in the input directory.
MaxTasks == 2

\* Largest size of the rayon pool.
MaxThreads == 2

UsizeModulus == 2 ^ UsizeBits
UsizeMax == UsizeModulus - 1

\* ----------------------------------------------------------------- strings

DigitChars == {"0", "1", "2", "3", "4", "5", "6", "7", "8", "9"}

DigitValue(c) ==
    CASE c = "0" -> 0 [] c = "1" -> 1 [] c = "2" -> 2 [] c = "3" -> 3
      [] c = "4" -> 4 [] c = "5" -> 5 [] c = "6" -> 6 [] c = "7" -> 7
      [] c = "8" -> 8 [] c = "9" -> 9

DigitChar(d) ==
    CASE d = 0 -> "0" [] d = 1 -> "1" [] d = 2 -> "2" [] d = 3 -> "3"
      [] d = 4 -> "4" [] d = 5 -> "5" [] d = 6 -> "6" [] d = 7 -> "7"
      [] d = 8 -> "8" [] d = 9 -> "9"

\* The Err of a parse.
ParseErr == -1

\* The digits loop of usize::from_str: checked multiply by 10 and checked
\* add of each digit; a non-digit or an overflow is an Err.
RECURSIVE ParseDigits(_, _)
ParseDigits(s, acc) ==
    IF s = <<>> THEN acc
    ELSE IF Head(s) \notin DigitChars THEN ParseErr
    ELSE IF acc * 10 + DigitValue(Head(s)) > UsizeMax THEN ParseErr
    ELSE ParseDigits(Tail(s), acc * 10 + DigitValue(Head(s)))

\* str::parse::<usize>(): the empty string is an Err, one leading "+" is
\* accepted (a lone "+" is an Err), "-" is an Err for an unsigned type.
ParseUsize(s) ==
    IF s = <<>> THEN ParseErr
    ELSE IF Head(s) = "+"
         THEN IF Tail(s) = <<>> THEN ParseErr ELSE ParseDigits(Tail(s), 0)
         ELSE ParseDigits(s, 0)

\* .parse::<usize>().unwrap_or(0)
ParseOrZero(s) == IF ParseUsize(s) = ParseErr THEN 0 ELSE ParseUsize(s)

\* str::starts_with
StartsWith(s, p) == Len(s) >= Len(p) /\ SubSeq(s, 1, Len(p)) = p

\* str::trim_start_matches(pattern): strips the pattern repeatedly.
RECURSIVE TrimStartMatches(_, _)
TrimStartMatches(s, p) ==
    IF p # <<>> /\ StartsWith(s, p)
    THEN TrimStartMatches(SubSeq(s, Len(p) + 1, Len(s)), p)
    ELSE s

\* str::replace(from, to): every non-overlapping match, left to right.
RECURSIVE Replace(_, _, _)
Replace(s, from, to) ==
    IF s = <<>> THEN <<>>
    ELSE IF StartsWith(s, from)
         THEN to \o Replace(SubSeq(s, Len(from) + 1, Len(s)), from, to)
         ELSE <<Head(s)>> \o Replace(Tail(s), from, to)

\* The text before the first occurrence of the separator c
\* (the first item of str::split(c)).
RECURSIVE FirstPart(_, _)
FirstPart(s, c) ==
    IF s = <<>> \/ Head(s) = c THEN <<>>
    ELSE <<Head(s)>> \o FirstPart(Tail(s), c)

\* The text after the first occurrence of the separator c, <<>> if none.
RECURSIVE AfterFirst(_, _)
AfterFirst(s, c) ==
    IF s = <<>> THEN <<>>
    ELSE IF Head(s) = c THEN Tail(s)
    ELSE AfterFirst(Tail(s), c)

HasChar(s, c) == \E i \in 1..Len(s) : s[i] = c

\* Path::file_name(): the last component of the path.
RECURSIVE FileName(_)
FileName(path) ==
    IF HasChar(path, "/") THEN FileName(AfterFirst(path, "/")) ELSE path

\* str::lines(): split at "\n", one trailing "\r" of a line dropped, no
\* empty last line after a final "\n".
StripCr(line) ==
    IF line # <<>> /\ line[Len(line)] = "\r"
    THEN SubSeq(line, 1, Len(line) - 1) ELSE line

RECURSIVE Lines(_)
Lines(text) ==
    IF text = <<>> THEN <<>>
    ELSE <<StripCr(FirstPart(text, "\n"))>> \o Lines(AfterFirst(text, "\n"))

WhiteChars == {" ", "\t", "\n", "\r"}

\* str::split_whitespace(): the maximal runs of non-whitespace characters.
RECURSIVE SplitWhitespaceFrom(_, _)
SplitWhitespaceFrom(s, word) ==
    IF s = <<>> THEN (IF word = <<>> THEN <<>> ELSE <<word>>)
    ELSE IF Head(s) \in WhiteChars
         THEN (IF word = <<>> THEN <<>> ELSE <<word>>)
              \o SplitWhitespaceFrom(Tail(s), <<>>)
         ELSE SplitWhitespaceFrom(Tail(s), Append(word, Head(s)))

SplitWhitespace(s) == SplitWhitespaceFrom(s, <<>>)

\* format!("{}", n) of an unsigned integer.
RECURSIVE FormatUsize(_)
FormatUsize(n) ==
    IF n < 10 THEN <<DigitChar(n)>>
    ELSE Append(FormatUsize(n \div 10), DigitChar(n % 10))

\* ------------------------------------------------------------ the program

\* Option<T>: <<>> is None, <<x>> is Some(x).
None == <<>>
Some(x) == <<x>>

\* struct Result
MkResult(input_file, score, score_string, visualizer) ==
    [input_file |-> input_file, score |-> score,
     score_string |-> score_string, visualizer |-> visualizer]

\* fn extract_number
extract_number(filename) == ParseOrZero(FirstPart(FileName(filename), "."))

\* fn format_score
format_score(score) == FormatUsize(score)

\* The zero-score Result that every early return of process_file builds.
ZeroResult(input_file) == MkResult(input_file, 0, <<"0">>, <<>>)

ScriptPlaceholder == <<"{", "{", "s", "c", "r", "i", "p", "t", "}", "}">>
SolverScriptPlaceholder ==
    <<"{", "{", "s", "o", "l", "v", "e", "r", "_",
      "s", "c", "r", "i", "p", "t", "}", "}">>

\* process_file: the tester command after substitution, split at whitespace.
CommandParts(config) ==
    LET c0 == config.command
        c1 == IF config.script # None
              THEN Replace(c0, ScriptPlaceholder, config.script[1]) ELSE c0
        c2 == IF config.solver_script # None
              THEN Replace(c1, SolverScriptPlaceholder, config.solver_script[1])
              ELSE c1
    IN  SplitWhitespace(c2)

ScorePrefix == <<"S", "c", "o", "r", "e", " ", "=", " ">>

\* A loop that stops at the first line with the prefix.
RECURSIVE ScanLinesFirst(_, _)
ScanLinesFirst(lines, score) ==
    IF lines = <<>> THEN score
    ELSE IF StartsWith(Head(lines), ScorePrefix)
         THEN ParseOrZero(TrimStartMatches(Head(lines), ScorePrefix))
         ELSE ScanLinesFirst(Tail(lines), score)

\* process_file: the loop over the lines of the tester's stderr. Every line
\* with the prefix assigns score.
RECURSIVE ScanLines(_, _)
ScanLines(lines, score) ==
    IF lines = <<>> THEN score
    ELSE ScanLines(Tail(lines),
                   IF StartsWith(Head(lines), ScorePrefix)
                   THEN ParseOrZero(TrimStartMatches(Head(lines), ScorePrefix))
                   ELSE score)

ParseScore(stderr_string) == ScanLines(Lines(stderr_string), 0)

\* fn process_file. env is what the file system and the tester process do in
\* this call: read (fs::read succeeds), spawn (cmd.spawn succeeds), stdin
\* (write_all succeeds), wait (wait_with_output succeeds), write (fs::write
\* of the output file succeeds), exit_ok (status.success()), stderr (what the
\* tester writes to its diagnostic stream).

\* A process_file that goes on to read the diagnostic stream after a failed
\* wait.
EarlyReturnNoWait(config, env) ==
    IF ~env.read THEN "read"
    ELSE IF CommandParts(config) = <<>> THEN "empty"
    ELSE IF ~env.spawn THEN "spawn"
    ELSE "none"

\* process_file: which of its early returns is taken, "none" if the tester
\* runs to its end.
EarlyReturn(config, env) ==
    IF ~env.read THEN "read"
    ELSE IF CommandParts(config) = <<>> THEN "empty"
    ELSE IF ~env.spawn THEN "spawn"
    ELSE IF ~env.wait THEN "wait"
    ELSE "none"

\* A process_file that keeps the score only if the output file was written.
RunScoreNeedsOutput(env) == IF env.write THEN ParseScore(env.stderr) ELSE 0

\* A process_file that scores zero when the tester exits with a failure.
RunScoreNeedsSuccess(env) == IF env.exit_ok THEN ParseScore(env.stderr) ELSE 0

\* process_file: the score once the tester has run to its end. The result of
\* fs::write is discarded (let _ =), the exit status is only logged.
RunScore(env) == ParseScore(env.stderr)

\* The value holds the Result returned and what the call did: spawn_called
\* (cmd.spawn was called), spawned (a tester process ran), written (the
\* output artifact, None if not written), log (the diagnostics printed, by
\* kind).
ProcessFile(input_file, output_dir, config, env) ==
    LET base_name == FileName(input_file)
        output_file == output_dir \o <<"/">> \o base_name
        early == EarlyReturn(config, env)
        score == RunScore(env)
    IN  IF early # "none"
        THEN [result |-> ZeroResult(input_file),
              spawn_called |-> early \in {"spawn", "wait"},
              spawned |-> early = "wait",
              written |-> None,
              log |-> IF early = "empty" THEN <<>> ELSE <<early>>]
        ELSE [result |-> MkResult(input_file, score, format_score(score), <<>>),
              spawn_called |-> TRUE,
              spawned |-> TRUE,
              written |-> IF env.write THEN Some(output_file) ELSE None,
              log |-> IF env.exit_ok THEN <<>> ELSE <<"warn_exit">>]

\* The name of the visualization of an input file:
\* base_name.replace(".txt", ".html")
TxtExt == <<".", "t", "x", "t">>
HtmlExt == <<".", "h", "t", "m", "l">>
HtmlName(input_file) == Replace(FileName(input_file), TxtExt, HtmlExt)

\* The directory written into Result.visualizer (a literal of the program).
VisualizationsPrefix ==
    <<"v", "i", "s", "u", "a", "l", "i", "z", "a", "t", "i", "o", "n", "s", "/">>

\* std::thread::available_parallelism().map(|n| n.get()).unwrap_or(1);
\* host_avail is None when the call fails.
AvailableParallelism(avail) == IF avail = None THEN 1 ELSE avail[1]

\* main, lines 138-146: the number given to the pool builder. configured is
\* config.parallel.and_then(|p| p.num_threads): Some(0) is passed on as 0.
ConfiguredThreads(configured, avail) ==
    IF configured = None THEN AvailableParallelism(avail) ELSE configured[1]

\* A pool builder that takes the number as it is given.
PoolThreadsAsGiven(n, avail, env_threads) == n

\* main, lines 147-150: the threads of the pool rayon builds for
\* num_threads(n). For n = 0 rayon chooses: RAYON_NUM_THREADS when it is set
\* to a positive number, the number of logical CPUs otherwise.
PoolThreads(n, avail, env_threads) ==
    IF n > 0 THEN n
    ELSE IF env_threads # None /\ env_threads[1] > 0 THEN env_threads[1]
    ELSE AvailableParallelism(avail)

\* fn visualize_result. vis_file is the state of ./vis.html when the call
\* starts: None, or Some(the input file whose visualization it holds).
\* env is what the visualizer process and the file system do in this call:
\* spawn (Command::output succeeds), wrote (the process wrote vis.html),
\* exit_ok (status.success()), rename, copy, remove (the fs call succeeds).

\* ./vis.html once the visualizer process has run.
AfterRun(result, env, vis_file) ==
    IF env.spawn /\ env.wrote THEN Some(result.input_file) ELSE vis_file

\* A visualize_result that goes on after a failed copy.
VisOutcomeIgnoresCopy(env, after_run) ==
    IF ~env.spawn THEN "vis_spawn"
    ELSE IF ~env.exit_ok THEN "vis_exit"
    ELSE IF after_run = None THEN "vis_missing"
    ELSE IF env.rename THEN "renamed"
    ELSE "copied"

\* visualize_result: the branch taken. after_run is ./vis.html once the
\* process has run (Path::exists is asked of it).
VisOutcome(env, after_run) ==
    IF ~env.spawn THEN "vis_spawn"
    ELSE IF ~env.exit_ok THEN "vis_exit"
    ELSE IF after_run = None THEN "vis_missing"
    ELSE IF env.rename THEN "renamed"
    ELSE IF ~env.copy THEN "vis_copy"
    ELSE "copied"

\* The value holds the Result returned, the state of ./vis.html afterwards,
\* the file placed in the visualizer directory (moved: None or
\* Some([path, content])) and the diagnostics printed, by kind.
VisualizeResult(result, output_dir, visualizer_dir, env, vis_file) ==
    LET visualizer_file == visualizer_dir \o <<"/">> \o HtmlName(result.input_file)
        after_run == AfterRun(result, env, vis_file)
        outcome == VisOutcome(env, after_run)
        placed == Some([path |-> visualizer_file, content |-> after_run[1]])
        visualized == [result EXCEPT !.visualizer =
                          VisualizationsPrefix \o HtmlName(result.input_file)]
    IN  CASE outcome = "vis_spawn" ->
               [result |-> result, vis_file |-> vis_file, moved |-> None,
                log |-> <<"vis_spawn">>]
          [] outcome = "vis_exit" ->
               [result |-> result, vis_file |-> after_run, moved |-> None,
                log |-> <<"vis_exit">>]
          [] outcome = "vis_missing" ->
               [result |-> result, vis_file |-> None, moved |-> None,
                log |-> <<"vis_missing">>]
          [] outcome = "renamed" ->
               [result |-> visualized, vis_file |-> None, moved |-> placed,
                log |-> <<>>]
          [] outcome = "vis_copy" ->
               [result |-> result, vis_file |-> after_run, moved |-> None,
                log |-> <<"vis_copy">>]
          [] outcome = "copied" ->
               [result |-> visualized,
                vis_file |-> IF env.remove THEN None ELSE after_run,
                moved |-> placed, log |-> <<>>]

\* slice::sort_by_key: a stable sort, here as an insertion sort over
\* <<key, element>> pairs: an element is placed after every element whose
\* key is not greater.
RECURSIVE InsertByKey(_, _)
InsertByKey(sorted, x) ==
    IF sorted = <<>> THEN <<x>>
    ELSE IF Head(sorted)[1] <= x[1]
         THEN <<Head(sorted)>> \o InsertByKey(Tail(sorted), x)
         ELSE <<x>> \o sorted

RECURSIVE SortByKeyFrom(_, _)
SortByKeyFrom(sorted, rest) ==
    IF rest = <<>> THEN sorted
    ELSE SortByKeyFrom(InsertByKey(sorted, Head(rest)), Tail(rest))

SortByKey(pairs) ==
    LET sorted == SortByKeyFrom(<<>>, pairs)
    IN  [i \in 1..Len(sorted) |-> sorted[i][2]]

\* main, line 107: input_files.sort_by_key(|f| extract_number(f))
SortInputFiles(files) ==
    SortByKey([i \in 1..Len(files) |-> <<extract_number(files[i]), files[i]>>])

\* main, line 178: results.sort_by_key(|r| extract_number(&r.input_file))
SortResults(rs) ==
    SortByKey([i \in 1..Len(rs) |-> <<extract_number(rs[i].input_file), rs[i]>>])

\* The sum of the scores as mathematical integers.
RECURSIVE SumScores(_)
SumScores(rs) ==
    IF rs = <<>> THEN 0 ELSE Head(rs).score + SumScores(Tail(rs))

\* main, line 181: Iterator::sum over usize. overflow_checks is the build's
\* setting: with it an overflowing addition panics (the value is None),
\* without it the addition wraps.
RECURSIVE SumUsize(_, _, _)
SumUsize(rs, acc, overflow_checks) ==
    IF rs = <<>> THEN Some(acc)
    ELSE IF acc + Head(rs).score > UsizeMax /\ overflow_checks THEN None
    ELSE SumUsize(Tail(rs), (acc + Head(rs).score) % UsizeModulus,
                  overflow_checks)

TotalScore(rs, overflow_checks) == SumUsize(rs, 0, overflow_checks)

\* ------------------------------------------------------------ environment

\* paths of the input directory
Path(name) == <<"i", "n", "/">> \o name \o TxtExt

FileUniverse == {Path(<<"2">>), Path(<<"0", "2">>), Path(<<"1", "0">>)}

\* The sequences without repetition over a set, up to a length.
RECURSIVE Listings(_, _)
Listings(files, n) ==
    IF n = 0 \/ files = {} THEN {<<>>}
    ELSE {<<>>} \cup UNION {{<<f>> \o l : l \in Listings(files \ {f}, n - 1)} :
                            f \in files}

\* What fs::read_dir may yield: the files of the directory in any order.
DirListings == Listings(FileUniverse, MaxTasks)

\* Configurations: a tester command with a placeholder, and one that is
\* empty after substitution and whitespace splitting.
MkConfig(command, script, solver_script) ==
    [command |-> command, script |-> script, solver_script |-> solver_script,
     output_dir |-> <<"o", "u", "t">>, visualizer_dir |-> <<"v", "i", "s">>]

ConfigRun == MkConfig(<<"t", " ">> \o ScriptPlaceholder, Some(<<"s">>), None)
ConfigEmpty == MkConfig(<<" ">> \o ScriptPlaceholder, Some(<<" ">>), None)
Configs == {ConfigRun, ConfigEmpty}

NL == <<"\n">>
ScoreLine(digits) == ScorePrefix \o digits \o NL

\* Diagnostic streams of the tester.
StderrNoise == <<"n", "o", "i", "s", "e">> \o NL
StderrTwo == ScoreLine(<<"1", "0">>) \o StderrNoise \o ScoreLine(<<"4", "2">>)
StderrMax == ScoreLine(FormatUsize(UsizeMax))

PipelineStderr == {StderrNoise, StderrTwo, StderrMax}

MkTesterEnv(read, spawn, stdin, wait, write, exit_ok, stderr) ==
    [read |-> read, spawn |-> spawn, stdin |-> stdin, wait |-> wait,
     write |-> write, exit_ok |-> exit_ok, stderr |-> stderr]

\* What can happen to one process_file call: it fails at the read, at the
\* spawn or at the wait (what lies behind the failure is not looked at), or
\* the tester runs to its end.
TesterEnvs(texts) ==
    {MkTesterEnv(FALSE, FALSE, FALSE, FALSE, FALSE, FALSE, t) : t \in texts}
    \cup {MkTesterEnv(TRUE, FALSE, FALSE, FALSE, FALSE, FALSE, t) : t \in texts}
    \cup {MkTesterEnv(TRUE, TRUE, i, FALSE, FALSE, FALSE, t) :
            i \in BOOLEAN, t \in texts}
    \cup {MkTesterEnv(TRUE, TRUE, e[1], TRUE, e[2], e[3], t) :
            e \in BOOLEAN \X BOOLEAN \X BOOLEAN, t \in texts}

MkVisEnv(spawn, wrote, exit_ok, rename, copy, remove) ==
    [spawn |-> spawn, wrote |-> wrote, exit_ok |-> exit_ok,
     rename |-> rename, copy |-> copy, remove |-> remove]

\* What can happen to one visualize_result call.
VisEnvs ==
    {MkVisEnv(FALSE, FALSE, FALSE, FALSE, FALSE, FALSE)}
    \cup {MkVisEnv(TRUE, w, FALSE, FALSE, FALSE, FALSE) : w \in BOOLEAN}
    \cup {MkVisEnv(TRUE, w, TRUE, TRUE, FALSE, FALSE) : w \in BOOLEAN}
    \cup {MkVisEnv(TRUE, w, TRUE, FALSE, FALSE, FALSE) : w \in BOOLEAN}
    \cup {MkVisEnv(TRUE, w, TRUE, FALSE, TRUE, r) : w \in BOOLEAN, r \in BOOLEAN}

\* A vis.html that lies in the working directory before the run.
StaleFile == <<"s", "t", "a", "l", "e">>

\* ----------------------------------------------------------------- pipeline

VARIABLES
    input_files,    \* main: the sorted input files (line 107)
    config,         \* main: the configuration loaded
    num_threads,    \* producer: the size of the rayon pool
    pending,        \* pool: indices of input_files no worker has taken
    running,        \* pool: indices whose process_file call is in progress
    calls,          \* history: process_file calls made, per index
    scored,         \* history: what process_file returned, per index
    chan,           \* the mpsc channel: results sent and not received
    tx_alive,       \* a Sender of the channel exists
    pc,             \* main thread: "recv", "vis", "sort", "done", "panicked"
    visualizing,    \* results whose visualize_result call is in progress
    results,        \* main: the Vec of results
    score_pos,      \* score_bar's position
    vis_pos,        \* vis_bar's position
    total_score,    \* main: total_score, None before it is computed
    vis_file,       \* the file ./vis.html: None or Some(content)
    sc_files,       \* scorer: the input files of the batch
    sc_config,      \* scorer: the configuration
    sc_next,        \* scorer: index of the next file to score
    sc_call,        \* scorer: the last process_file call, None before it
    sc_ret,         \* scorer: what that call returned and did
    received,       \* history: the results in the order the loop got them
    parallel,       \* config.parallel.num_threads: None or Some(n)
    host_avail,     \* std::thread::available_parallelism(): None is its Err
    rayon_env,      \* RAYON_NUM_THREADS: None if unset, or Some(n)
    pool_built,     \* the rayon pool has been built
    vz_queue,       \* visualizer: the scored results still to visualize
    vz_call,        \* visualizer: the last visualize_result call
    vz_ret          \* visualizer: what that call returned and did

\* The state of the pipeline, and the state of the scorer run on its own.
pvars == <<input_files, config, num_threads, pending, running, calls, scored,
           chan, tx_alive, pc, visualizing, results, score_pos, vis_pos,
           total_score, vis_file, received>>
svars == <<sc_files, sc_config, sc_next, sc_call, sc_ret>>
\* What decides the size of the pool, and the visualizer run on its own.
cvars == <<parallel, host_avail, rayon_env, pool_built>>
vvars == <<vz_queue, vz_call, vz_ret>>
vars == <<pvars, svars, cvars, vvars>>

Tasks == 1..Len(input_files)

\* The scorer and the visualizer run on their own have nothing to do.
ScorerIdle ==
    /\ sc_files = <<>>
    /\ sc_config = ConfigRun
    /\ sc_next = 1
    /\ sc_call = None
    /\ sc_ret = None

VisualizerIdle ==
    /\ vz_queue = <<>>
    /\ vz_call = None
    /\ vz_ret = None

\* The state when the producer thread has been spawned (line 137) and main
\* is about to enter its loop (line 167).
Init ==
    /\ \E listing \in DirListings : input_files = SortInputFiles(listing)
    /\ config \in Configs
    /\ num_threads \in 1..MaxThreads
    /\ pending = 1..Len(input_files)
    /\ running = {}
    /\ calls = [i \in 1..Len(input_files) |-> 0]
    /\ scored = [i \in 1..Len(input_files) |-> None]
    /\ chan = <<>>
    /\ tx_alive = TRUE
    /\ pc = "recv"
    /\ visualizing = {}
    /\ results = <<>>
    /\ score_pos = 0
    /\ vis_pos = 0
    /\ total_score = None
    /\ vis_file \in {None, Some(StaleFile)}
    /\ received = <<>>
    /\ ScorerIdle
    /\ parallel = Some(num_threads)
    /\ host_avail = Some(1)
    /\ rayon_env = None
    /\ pool_built = TRUE
    /\ VisualizerIdle

\* The Receiver lives until the for loop over rx ends.
RxAlive == pc \in {"recv", "vis"}

Min(S) == CHOOSE x \in S : \A y \in S : x <= y

\* A pool that starts a closure for every item at once.
MayStartUnbounded(i) == i \in pending

\* A worker of the pool may take a task: a pool of num_threads threads runs
\* at most num_threads closures at a time; a pool of one thread runs the
\* items in order.
MayStart(i) ==
    /\ i \in pending
    /\ Cardinality(running) < num_threads
    /\ num_threads = 1 => i = Min(pending)

\* The tasks left to a worker once it has taken task i.
TakeTask(i) == pending \ {i}

\* A worker starts the closure of for_each_with on item i (line 155).
StartScore(i) ==
    /\ MayStart(i)
    /\ pending' = TakeTask(i)
    /\ running' = running \cup {i}
    /\ calls' = [calls EXCEPT ![i] = @ + 1]
    /\ UNCHANGED <<svars, cvars, vvars, received, input_files, config, num_threads, scored, chan, tx_alive,
                   pc, visualizing, results, score_pos, vis_pos, total_score,
                   vis_file>>

\* A send that fails while the consumer is busy with a visualization.
SendUnlessBusy(queue, result) ==
    IF pc = "recv" THEN Append(queue, result) ELSE queue

\* A send that queues a Result with the input file alone filled in.
SendBlank(queue, result) ==
    IF RxAlive THEN Append(queue, ZeroResult(result.input_file)) ELSE queue

\* mpsc::Sender::send: the result is queued while the Receiver lives; the
\* Err of a send to a dropped Receiver is discarded (let _ =).
Send(queue, result) == IF RxAlive THEN Append(queue, result) ELSE queue

\* process_file returns on item i and its result is sent (lines 155-161).
FinishScore(i, env) ==
    /\ i \in running
    /\ LET ret == ProcessFile(input_files[i], config.output_dir, config, env)
       IN  /\ chan' = Send(chan, ret.result)
           /\ scored' = [scored EXCEPT ![i] = Some(ret.result)]
    /\ running' = running \ {i}
    /\ UNCHANGED <<svars, cvars, vvars, received, input_files, config, num_threads, pending, calls, tx_alive,
                   pc, visualizing, results, score_pos, vis_pos, total_score,
                   vis_file>>

\* A producer that drops the Sender once every item has been taken.
MayDropSendersEarly == pending = {}

\* A producer that holds its Sender until the consumer loop has ended.
MayDropSendersAfterLoop == pending = {} /\ running = {} /\ ~RxAlive

\* for_each_with has run every item: pool.install returns and the producer
\* thread ends, dropping the last Sender (lines 151-164).
MayDropSenders == pending = {} /\ running = {}

ProducerExit ==
    /\ tx_alive
    /\ MayDropSenders
    /\ tx_alive' = FALSE
    /\ UNCHANGED <<svars, cvars, vvars, received, input_files, config, num_threads, pending, running, calls,
                   scored, chan, pc, visualizing, results, score_pos, vis_pos,
                   total_score, vis_file>>

\* A collection that takes the new result at its front.
PushFront(rs, r) == <<r>> \o rs

\* Vec::push (line 171)
Push(rs, r) == Append(rs, r)

\* A bar advanced by two.
BarIncTwo(pos) == pos + 2

\* ProgressBar::inc(1)
BarInc(pos) == pos + 1

\* A consumer that takes the next result while a visualization runs.
MayRecvAnytime == pc \in {"recv", "vis"}

\* The consumer may take the next result: it is at the head of its loop.
MayRecv == pc = "recv"

\* The loop receives a result, advances score_bar and calls visualize_result
\* (lines 167-169).
Recv ==
    /\ MayRecv
    /\ chan # <<>>
    /\ chan' = Tail(chan)
    /\ score_pos' = BarInc(score_pos)
    /\ received' = Append(received, Head(chan))
    /\ visualizing' = visualizing \cup {Head(chan)}
    /\ pc' = "vis"
    /\ UNCHANGED <<svars, cvars, vvars, input_files, config, num_threads, pending, running, calls,
                   scored, tx_alive, results, vis_pos, total_score, vis_file>>

\* visualize_result returns; vis_bar advances and the result is pushed
\* (lines 169-171).
Visualized(r, env) ==
    /\ pc = "vis"
    /\ r \in visualizing
    /\ LET ret == VisualizeResult(r, config.output_dir, config.visualizer_dir,
                                  env, vis_file)
       IN  /\ results' = Push(results, ret.result)
           /\ vis_file' = ret.vis_file
    /\ visualizing' = visualizing \ {r}
    /\ vis_pos' = BarInc(vis_pos)
    /\ pc' = "recv"
    /\ UNCHANGED <<svars, cvars, vvars, received, input_files, config, num_threads, pending, running, calls,
                   scored, chan, tx_alive, score_pos, total_score>>

\* Receiver::recv reports the channel closed: it is empty and no Sender
\* exists.
Disconnected == chan = <<>> /\ ~tx_alive

\* The loop ends, the producer is joined, the bars finish (lines 172-175).
LoopEnd ==
    /\ pc = "recv"
    /\ Disconnected
    /\ pc' = "sort"
    /\ UNCHANGED <<svars, cvars, vvars, received, input_files, config, num_threads, pending, running, calls,
                   scored, chan, tx_alive, visualizing, results, score_pos,
                   vis_pos, total_score, vis_file>>

\* The results are sorted and summed (lines 178-181). The sum panics on
\* overflow in a build with overflow checks and wraps in one without.
Aggregate(overflow_checks) ==
    /\ pc = "sort"
    /\ results' = SortResults(results)
    /\ LET total == TotalScore(SortResults(results), overflow_checks)
       IN  IF total = None
           THEN pc' = "panicked" /\ total_score' = None
           ELSE pc' = "done" /\ total_score' = total
    /\ UNCHANGED <<svars, cvars, vvars, received, input_files, config, num_threads, pending, running, calls,
                   scored, chan, tx_alive, visualizing, score_pos, vis_pos,
                   vis_file>>

Next ==
    \/ \E i \in Tasks : StartScore(i)
    \/ \E i \in Tasks, env \in TesterEnvs(PipelineStderr) : FinishScore(i, env)
    \/ ProducerExit
    \/ Recv
    \/ \E r \in visualizing, env \in VisEnvs : Visualized(r, env)
    \/ LoopEnd
    \/ \E overflow_checks \in BOOLEAN : Aggregate(overflow_checks)

Spec == Init /\ [][Next]_vars

\* A step of the threads of the pipeline up to the end of the consumer loop.
NextLoop ==
    \/ \E i \in Tasks : StartScore(i)
    \/ \E i \in Tasks, env \in TesterEnvs(PipelineStderr) : FinishScore(i, env)
    \/ ProducerExit
    \/ Recv
    \/ \E r \in visualizing, env \in VisEnvs : Visualized(r, env)
    \/ LoopEnd

\* The threads go on running: a worker of the pool takes a task while one
\* is free, every tester and visualizer process that was started returns,
\* the producer thread ends once for_each_with has returned, and the main
\* thread goes on with its loop. So the run does not stop while one of
\* these steps is possible.
Fairness == WF_vars(NextLoop)

SpecFair == Init /\ [][Next]_vars /\ Fairness

\* ------------------------------------------------------- the scorer alone

\* More diagnostic streams: a greater score before a smaller one, an
\* unparsable last match, a prefix that is not at the start of the line, a
\* repeated prefix, CRLF line ends, a sign, a value one digit too long for
\* usize.
StderrDescending == ScoreLine(<<"4", "2">>) \o ScoreLine(<<"1", "0">>)
StderrBadLast == ScoreLine(<<"7">>) \o ScoreLine(<<"x">>)
StderrIndented == <<" ">> \o ScoreLine(<<"5">>)
StderrTwice == ScorePrefix \o ScoreLine(<<"5">>)
StderrCrLf == ScorePrefix \o <<"3", "\r", "\n">> \o <<"o", "k">>
StderrPlus == ScoreLine(<<"+", "7">>)
StderrTooBig == ScoreLine(FormatUsize(UsizeMax) \o <<"0">>)

StderrTexts ==
    PipelineStderr \cup
    {<<>>, StderrDescending, StderrBadLast, StderrIndented, StderrTwice,
     StderrCrLf, StderrPlus, StderrTooBig}

\* More configurations: an empty command, a placeholder replaced by the
\* empty string, a placeholder left in place because its value is unset.
ConfigBlank == MkConfig(<<>>, None, None)
ConfigNoScript == MkConfig(ScriptPlaceholder, Some(<<>>), Some(<<"x">>))
ConfigSolver ==
    MkConfig(ScriptPlaceholder \o <<" ">> \o SolverScriptPlaceholder,
             None, Some(<<"x">>))

ScorerConfigs == Configs \cup {ConfigBlank, ConfigNoScript, ConfigSolver}

\* The pipeline before it is given anything to do.
PipelineNotRun ==
    /\ input_files = <<>>
    /\ num_threads = 1
    /\ pending = {}
    /\ running = {}
    /\ calls = <<>>
    /\ scored = <<>>
    /\ chan = <<>>
    /\ tx_alive = TRUE
    /\ pc = "recv"
    /\ visualizing = {}
    /\ results = <<>>
    /\ score_pos = 0
    /\ vis_pos = 0
    /\ total_score = None
    /\ received = <<>>
    /\ parallel = None
    /\ host_avail = Some(1)
    /\ rayon_env = None
    /\ pool_built = TRUE

PipelineIdle ==
    /\ PipelineNotRun
    /\ config = ConfigRun
    /\ vis_file = None

\* The scorer is given the sorted input files and a configuration.
InitScorer ==
    /\ PipelineIdle
    /\ VisualizerIdle
    /\ \E listing \in DirListings : sc_files = SortInputFiles(listing)
    /\ sc_config \in ScorerConfigs
    /\ sc_next = 1
    /\ sc_call = None
    /\ sc_ret = None

\* One process_file call, on the next input file (lines 155-160).
ScoreStep(env) ==
    /\ sc_next <= Len(sc_files)
    /\ sc_call' = Some([input_file |-> sc_files[sc_next], env |-> env])
    /\ sc_ret' = Some(ProcessFile(sc_files[sc_next], sc_config.output_dir,
                                  sc_config, env))
    /\ sc_next' = sc_next + 1
    /\ UNCHANGED <<pvars, cvars, vvars, sc_files, sc_config>>

NextScorer == \E env \in TesterEnvs(StderrTexts) : ScoreStep(env)

SpecScorer == InitScorer /\ [][NextScorer]_vars

\* ---------------------------------------------------------------------
\* The building of the pool: the configuration, the host and the environment
\* decide its size; the workers then take the tasks.

\* Values of parallel.num_threads, of available_parallelism() and of
\* RAYON_NUM_THREADS.
OptionalThreads == {None} \cup {Some(n) : n \in 0..MaxThreads}
HostThreads == {None} \cup {Some(n) : n \in 1..MaxThreads}

InitPool ==
    /\ \E listing \in DirListings : input_files = SortInputFiles(listing)
    /\ config = ConfigRun
    /\ num_threads = 0
    /\ pending = 1..Len(input_files)
    /\ running = {}
    /\ calls = [i \in 1..Len(input_files) |-> 0]
    /\ scored = [i \in 1..Len(input_files) |-> None]
    /\ chan = <<>>
    /\ tx_alive = TRUE
    /\ pc = "recv"
    /\ visualizing = {}
    /\ results = <<>>
    /\ score_pos = 0
    /\ vis_pos = 0
    /\ total_score = None
    /\ vis_file = None
    /\ received = <<>>
    /\ ScorerIdle
    /\ VisualizerIdle
    /\ parallel \in OptionalThreads
    /\ host_avail \in HostThreads
    /\ rayon_env \in OptionalThreads
    /\ pool_built = FALSE

\* The producer thread builds the pool (lines 138-150).
BuildPool ==
    /\ ~pool_built
    /\ num_threads' = PoolThreads(ConfiguredThreads(parallel, host_avail),
                                  host_avail, rayon_env)
    /\ pool_built' = TRUE
    /\ UNCHANGED <<svars, vvars, parallel, host_avail, rayon_env, input_files,
                   config, pending, running, calls, scored, chan, tx_alive, pc,
                   visualizing, results, score_pos, vis_pos, total_score,
                   vis_file, received>>

NextPool ==
    \/ BuildPool
    \/ \E i \in Tasks : StartScore(i)

SpecPool == InitPool /\ [][NextPool]_vars

\* ---------------------------------------------------------------------
\* visualize_result on its own: the calls the consumer loop makes, one after
\* the other, on the results it is sent; the last call and what it returned
\* are recorded.

\* Input files of the visualizer; one holds the extension twice.
VisFileUniverse ==
    {Path(<<"2">>), Path(<<"1", "0">>), Path(<<"a">> \o TxtExt)}

\* Visualizer directories of a configuration.
VisualizerDirs ==
    {<<"v", "i", "s">>,
     <<"v", "i", "s", "u", "a", "l", "i", "z", "a", "t", "i", "o", "n", "s">>}

ConfigVis(visualizer_dir) == [ConfigRun EXCEPT !.visualizer_dir = visualizer_dir]

\* The Results process_file may send for an input file.
ScoredResults(input_file) ==
    {ZeroResult(input_file),
     MkResult(input_file, ParseScore(StderrTwo),
              format_score(ParseScore(StderrTwo)), <<>>)}

\* The visualizer is given the results in the order the channel yields them.
InitVis ==
    /\ PipelineNotRun
    /\ ScorerIdle
    /\ \E d \in VisualizerDirs : config = ConfigVis(d)
    /\ vis_file \in {None, Some(StaleFile)}
    /\ \E listing \in Listings(VisFileUniverse, MaxTasks) :
          vz_queue \in {q \in [1..Len(listing) -> UNION {ScoredResults(f) : f \in VisFileUniverse}] :
                          \A k \in 1..Len(listing) : q[k] \in ScoredResults(listing[k])}
    /\ vz_call = None
    /\ vz_ret = None

\* One visualize_result call, on the next result (lines 167-171).
VisStep(env) ==
    /\ vz_queue # <<>>
    /\ LET ret == VisualizeResult(Head(vz_queue), config.output_dir,
                                  config.visualizer_dir, env, vis_file)
       IN  /\ vz_call' = Some([result |-> Head(vz_queue), env |-> env,
                                vis_file |-> vis_file])
           /\ vz_ret' = Some(ret)
           /\ vis_file' = ret.vis_file
    /\ vz_queue' = Tail(vz_queue)
    /\ UNCHANGED <<svars, cvars, input_files, config, num_threads, pending,
                   running, calls, scored, chan, tx_alive, pc, visualizing,
                   results, score_pos, vis_pos, total_score, received>>

NextVis == \E env \in VisEnvs : VisStep(env)

SpecVis == InitVis /\ [][NextVis]_vars

\* -------------------------------------------------------------- properties

LoopEnded == pc \in {"sort", "done", "panicked"}

\* The results of the collection that belong to the task of index i.
ResultsOf(i) == {k \in 1..Len(results) : results[k].input_file = input_files[i]}

\* C1: when the consumer loop has ended, the collection holds exactly one
\* result per enumerated task, whatever failed in the tasks: none is lost
\* and none is there twice.
C1_OneResultPerTask ==
    LoopEnded =>
        /\ Len(results) = Len(input_files)
        /\ \A i \in Tasks : Cardinality(ResultsOf(i)) = 1

\* The loop has ended on two tasks whose results came in the order opposite
\* to their enumeration.
C1_Witness ==
    /\ pc = "sort"
    /\ Len(input_files) = 2
    /\ Len(results) = 2
    /\ results[1].input_file = input_files[2]
    /\ results[1].score = 0

\* C2: after aggregation the collection is in non-decreasing order of sort
\* key, and tasks of equal key are in their enumeration order: as
\* input_files is in that order already, the files of the collection are
\* input_files.
C2_EnumerationOrder ==
    pc = "done" =>
        /\ \A k \in 1..(Len(results) - 1) :
             extract_number(results[k].input_file)
                <= extract_number(results[k + 1].input_file)
        /\ [k \in 1..Len(results) |-> results[k].input_file] = input_files

\* What a run of parallelism 1 aggregates: the pool of one thread scores the
\* files in order, so the results are received, kept and summed in the order
\* of input_files.
SequentialScores == [k \in Tasks |-> scored[k][1]]

\* C3: the aggregate does not depend on the parallelism or on the order in
\* which the workers finish: records, scores and total are those of the run
\* of parallelism 1 with the same outcome for every task.
C3_SameAsSequential ==
    pc = "done" =>
        /\ Len(results) = Len(input_files)
        /\ \A k \in 1..Len(results) :
             /\ results[k].input_file = SequentialScores[k].input_file
             /\ results[k].score = SequentialScores[k].score
             /\ results[k].score_string = SequentialScores[k].score_string
        /\ total_score = TotalScore(SequentialScores, FALSE)

\* C4: never more than num_threads process_file calls in progress.
C4_AtMostNScorers == Cardinality(running) <= num_threads

\* The pool is full and a task waits for a worker.
C4_Witness == Cardinality(running) = num_threads /\ pending # {}

\* The result of task i is in the channel, with the consumer or collected.
Delivered(i) ==
    \/ \E k \in 1..Len(chan) : chan[k].input_file = input_files[i]
    \/ \E r \in visualizing : r.input_file = input_files[i]
    \/ ResultsOf(i) # {}

\* C5: process_file runs once per task, and no Sender is left (the channel
\* is closed) only when every task has been scored and its result sent, so
\* the consumer sees the channel closed only then.
C5_ScoredOnceClosedLast ==
    /\ \A i \in Tasks : calls[i] <= 1
    /\ (~tx_alive \/ LoopEnded) =>
          \A i \in Tasks : calls[i] = 1 /\ scored[i] # None /\ Delivered(i)

\* The Senders are gone while both results still wait in the channel.
C5_Witness == ~tx_alive /\ Len(chan) = 2 /\ pc = "recv"

\* C6: at most one visualize_result call is in progress, so ./vis.html has
\* one writer at a time, also while scorers run.
C6_OneVisualizer == Cardinality(visualizing) <= 1

\* A visualization is in progress while a scorer runs.
C6_Witness == Cardinality(visualizing) = 1 /\ running # {}

\* C7: the total is the sum of the scores of the final collection.
C7_TotalIsSum == pc = "done" => total_score = Some(SumScores(results))

\* The call the scorer made last, and what it returned.
ScCall == sc_call[1]
ScRet == sc_ret[1]
ScRanToEnd == sc_call # None /\ EarlyReturn(sc_config, ScCall.env) = "none"

Max(S) == CHOOSE x \in S : \A y \in S : y <= x

\* The lines of a text that start with the prefix.
MatchingLines(text) ==
    {k \in 1..Len(Lines(text)) : StartsWith(Lines(text)[k], ScorePrefix)}

\* The candidate of the last matching line, 0 if no line matches.
LastCandidate(text) ==
    IF MatchingLines(text) = {} THEN 0
    ELSE ParseOrZero(TrimStartMatches(Lines(text)[Max(MatchingLines(text))],
                                      ScorePrefix))

\* C8: the score is the candidate of the last line with the prefix
\* "Score = ", and 0 when no line has it.
C8_LastMatchWins ==
    ScRanToEnd => ScRet.result.score = LastCandidate(ScCall.env.stderr)

\* The tester printed 42 and then 10: the score is 10, which is neither the
\* first match, nor the maximum, nor the sum.
C8_Witness ==
    /\ ScRanToEnd
    /\ ScCall.env.stderr = StderrDescending
    /\ ScRet.result.score = 10

\* The batch goes on: the scorer has returned and the next file, if there is
\* one, can be scored.
BatchContinues ==
    /\ sc_ret # None
    /\ sc_next <= Len(sc_files) => ENABLED NextScorer

\* C9 as stated: an unreadable input and an unwritable output artifact both
\* give a zero-score result.
C9_IoErrorsZero ==
    (sc_call # None /\ (~ScCall.env.read \/ (ScRanToEnd /\ ~ScCall.env.write)))
        => ScRet.result = ZeroResult(ScCall.input_file)

\* C9 as amended: an unreadable input gives the zero-score result; a failed
\* write of the output artifact changes nothing in the result, which is the
\* one of the same call with the write succeeding; the batch goes on.
C9_ReadZeroWriteIgnored ==
    /\ (sc_call # None /\ ~ScCall.env.read) =>
          ScRet.result = ZeroResult(ScCall.input_file) /\ BatchContinues
    /\ (ScRanToEnd /\ ~ScCall.env.write) =>
          /\ ScRet.result.input_file = ScCall.input_file
          /\ ScRet.result.score = LastCandidate(ScCall.env.stderr)
          /\ ScRet.result.score_string = FormatUsize(ScRet.result.score)
          /\ ScRet.written = None
          /\ BatchContinues

\* The output artifact could not be written and the score is 42; another
\* file is left to score.
C9_Witness ==
    /\ ScRanToEnd
    /\ ~ScCall.env.write
    /\ ScRet.result.score = 42
    /\ sc_next <= Len(sc_files)

\* C10: a call whose input is unreadable, whose spawn fails or whose wait
\* fails returns score 0 with no visualizer reference; with an empty command
\* the result is zero-score and no process is spawned; the batch goes on.
C10_FailuresZero ==
    sc_call # None =>
        /\ (\/ ~ScCall.env.read
            \/ (CommandParts(sc_config) # <<>>
                /\ (~ScCall.env.spawn \/ ~ScCall.env.wait))) =>
              /\ ScRet.result.score = 0
              /\ ScRet.result.score_string = <<"0">>
              /\ ScRet.result.visualizer = <<>>
              /\ ScRet.result.input_file = ScCall.input_file
              /\ BatchContinues
        /\ CommandParts(sc_config) = <<>> =>
              /\ ScRet.result.score = 0
              /\ ScRet.result.visualizer = <<>>
              /\ ~ScRet.spawn_called
              /\ ~ScRet.spawned
              /\ BatchContinues

\* The wait failed on a tester that had printed a score, and another file is
\* left to score.
C10_Witness ==
    /\ sc_call # None
    /\ CommandParts(sc_config) # <<>>
    /\ ScCall.env.read /\ ScCall.env.spawn /\ ~ScCall.env.wait
    /\ ScCall.env.stderr = StderrTwo
    /\ ScRet.result.score = 0
    /\ sc_next <= Len(sc_files)

\* ---- C11 ----
\* C11: a tester that exits with a non-zero status has its score taken from
\* its stderr all the same: the Result is the one the same call returns when
\* the tester exits with zero and prints the same stderr, its score is the
\* last candidate of the stderr, and only the warning is printed.
C11_ExitStatusIgnored ==
    (ScRanToEnd /\ ~ScCall.env.exit_ok) =>
        /\ ScRet.result =
              ProcessFile(ScCall.input_file, sc_config.output_dir, sc_config,
                          [ScCall.env EXCEPT !.exit_ok = TRUE]).result
        /\ ScRet.result.score = LastCandidate(ScCall.env.stderr)
        /\ ScRet.result.score_string = FormatUsize(ScRet.result.score)
        /\ ScRet.log = <<"warn_exit">>

\* The tester printed two scores and exited with a failure; the last score
\* is the result.
C11_Witness ==
    /\ ScRanToEnd
    /\ ~ScCall.env.exit_ok
    /\ ScCall.env.stderr = StderrTwo
    /\ ScRet.result.score = LastCandidate(StderrTwo)
    /\ ScRet.result.score # 0

\* ---- C12 ----
VzCall == vz_call[1]
VzRet == vz_ret[1]

\* The visualization of the last call failed: the visualizer could not be
\* started, it exited with a failure, no ./vis.html exists after it ran, or
\* ./vis.html could be neither renamed nor copied.
VisFailed ==
    \/ ~VzCall.env.spawn
    \/ ~VzCall.env.exit_ok
    \/ (~VzCall.env.wrote /\ VzCall.vis_file = None)
    \/ (~VzCall.env.rename /\ ~VzCall.env.copy)

\* C12: visualize_result returns the Result with input_file, score and
\* score_string as it was given them, whatever happens; when the
\* visualization fails the visualizer reference is absent and nothing is
\* placed in the visualizer directory.
C12_VisualizeKeepsFields ==
    vz_call # None =>
        /\ VzRet.result.input_file = VzCall.result.input_file
        /\ VzRet.result.score = VzCall.result.score
        /\ VzRet.result.score_string = VzCall.result.score_string
        /\ VisFailed => (VzRet.result.visualizer = <<>> /\ VzRet.moved = None)

\* The visualizer wrote vis.html for a result with a score, and the file
\* could be neither renamed nor copied.
C12_Witness ==
    /\ vz_call # None
    /\ VzCall.env.spawn /\ VzCall.env.exit_ok /\ VzCall.env.wrote
    /\ ~VzCall.env.rename /\ ~VzCall.env.copy
    /\ VzCall.result.score # 0
    /\ VzRet.result = VzCall.result

\* ---- C13 ----
\* The counters lie within the number of tasks; the scoring counter counts
\* the results received, the visualization counter the visualize_result
\* calls that have returned; both are at the number of tasks once the loop
\* has ended.
CountersInRange ==
    /\ score_pos \in 0..Len(input_files)
    /\ vis_pos \in 0..Len(input_files)
    /\ score_pos = Len(received)
    /\ vis_pos = Len(results)
    /\ LoopEnded => (score_pos = Len(input_files) /\ vis_pos = Len(input_files))

\* No step lowers a counter; receiving a result adds one to the scoring
\* counter, a returned visualize_result call (its result is appended) adds
\* one to the visualization counter, and nothing else moves them.
CountersStep ==
    /\ score_pos' >= score_pos
    /\ vis_pos' >= vis_pos
    /\ score_pos' - score_pos = Len(received') - Len(received)
    /\ vis_pos' - vis_pos = Len(results') - Len(results)
    /\ score_pos' - score_pos \in {0, 1}
    /\ vis_pos' - vis_pos \in {0, 1}

\* C13: the scoring and visualization counters never decrease and never
\* exceed the number of tasks; each received result adds one to the first,
\* each completed visualize_result call one to the second; both equal the
\* number of tasks when the consumer loop has ended.
C13_ProgressCounters == []CountersInRange /\ [][CountersStep]_vars

\* Two tasks: the loop has ended with both counters at two, after a
\* visualization that failed.
C13_Witness ==
    /\ LoopEnded
    /\ Len(input_files) = 2
    /\ score_pos = 2 /\ vis_pos = 2
    /\ \E k \in 1..Len(results) : results[k].visualizer = <<>>

ScFailed ==
    LET early == EarlyReturn(sc_config, ScCall.env)
    IN  \/ early # "none"
        \/ (early \in {"wait", "none"} /\ ~ScCall.env.stdin)
        \/ (early = "none" /\ (~ScCall.env.write \/ ~ScCall.env.exit_ok))

\* C15: a process_file call in which a failure happened has printed a
\* diagnostic; no failure passes without one.
C15_EveryFailureLogged ==
    (sc_call # None /\ ScFailed) => ScRet.log # <<>>

\* ---- C16 ----
\* The collection holds, in their order, the results received first.
InReceiptOrder ==
    /\ Len(results) <= Len(received)
    /\ \A k \in 1..Len(results) :
          /\ results[k].input_file = received[k].input_file
          /\ results[k].score = received[k].score

\* The consumer is at one result at a time: the scoring counter is ahead of
\* the visualization counter by the one result being visualized.
OneAtATime ==
    /\ score_pos - vis_pos \in {0, 1}
    /\ score_pos - vis_pos = Cardinality(visualizing)
    /\ visualizing # {} => visualizing = {received[Len(received)]}
    /\ Len(results) = vis_pos

Emitted == {scored[i][1] : i \in {j \in Tasks : scored[j] # None}}

\* The Result with the visualizer reference filled in.
WithReference(r) ==
    [r EXCEPT !.visualizer = VisualizationsPrefix \o HtmlName(r.input_file)]

\* Every emitted Result has no visualizer reference, and the Results in the
\* channel and at the visualizer are emitted Results, unchanged.
UntouchedBeforeVisualizer ==
    /\ \A r \in Emitted : r.visualizer = <<>>
    /\ \A k \in 1..Len(chan) : chan[k] \in Emitted
    /\ \A k \in 1..Len(received) : received[k] \in Emitted
    /\ visualizing \subseteq Emitted

\* No collected Result is changed or lost by a step (the sort moves them).
CollectedKept == {results[k] : k \in 1..Len(results)}
                     \subseteq {results'[k] : k \in 1..Len(results')}

\* C17, as stated: a Result is emitted without visualizer reference, the
\* visualizer fills the reference in before the Result is collected, and
\* nothing else changes a field of it.
C17_ReferenceAlwaysFilled ==
    /\ UntouchedBeforeVisualizer
    /\ \A k \in 1..Len(results) : \E r \in Emitted : results[k] = WithReference(r)

\* C17: a Result is emitted without visualizer reference; the pool and the
\* channel leave it unchanged; a collected Result is an emitted Result whose
\* visualizer reference the visualizer has filled in or, when the
\* visualization failed, has left absent, and no other field differs; the
\* sort and the sum change no collected Result.
C17_OnlyVisualizerMutates ==
    /\ [](/\ UntouchedBeforeVisualizer
          /\ \A k \in 1..Len(results) :
                \E r \in Emitted : results[k] \in {r, WithReference(r)})
    /\ [][CollectedKept]_vars

\* Two results are collected and sorted: one with a score and a visualizer
\* reference, one whose visualization failed.
C17_Witness ==
    /\ pc = "done"
    /\ \E k \in 1..Len(results) :
          results[k].visualizer # <<>> /\ results[k].score # 0
    /\ \E k \in 1..Len(results) :
          results[k].visualizer = <<>> /\ results[k] \in Emitted

\* ---- C18 ----
\* The path <visualizer_dir>/<base name with its extension replaced by
\* .html> of an input file whose name ends in .txt.
HtmlPathOf(visualizer_dir, input_file) ==
    LET base == FileName(input_file)
    IN  visualizer_dir \o <<"/">>
            \o SubSeq(base, 1, Len(base) - Len(TxtExt)) \o HtmlExt

\* C18: when the visualization succeeds the artifact is placed at
\* <visualizer_dir>/<base name with .html for its extension>, and the
\* visualizer reference of the Result returned is that same path.
C18_ReferenceIsRelocatedPath ==
    (vz_call # None /\ ~VisFailed) =>
        /\ VzRet.moved # None
        /\ VzRet.moved[1].path =
              HtmlPathOf(config.visualizer_dir, VzCall.result.input_file)
        /\ VzRet.result.visualizer = VzRet.moved[1].path

\* ---- C19 ----
\* C19: a Result returned with a visualizer reference has had placed, in the
\* visualizer directory, the vis.html that the visualizer wrote in that same
\* call; and a visualizer that exits with status zero without writing
\* vis.html leaves the reference absent.
C19_ArtifactIsOwn ==
    vz_call # None =>
        /\ VzRet.result.visualizer # <<>> =>
              /\ VzCall.env.wrote
              /\ VzRet.moved # None
              /\ VzRet.moved[1].content = VzCall.result.input_file
        /\ (VzCall.env.spawn /\ VzCall.env.exit_ok /\ ~VzCall.env.wrote) =>
              VzRet.result.visualizer = <<>>

\* ---- C20 ----
\* C20: for every set of tasks, the empty one too, and every pool of at
\* least one thread, when every tester and visualizer process returns: the
\* producer drops the last Sender, the consumer loop ends and the run
\* reaches the aggregation. (A run that stopped before, with no step
\* possible, would never reach it.)
C20_ReachesAggregation == <>(~tx_alive /\ LoopEnded)

\* Two tasks on a pool of one thread have been scored, visualized and
\* aggregated, and the Senders are dropped.
C20_Witness ==
    /\ pc = "done"
    /\ ~tx_alive
    /\ Len(input_files) = 2
    /\ num_threads = 1
    /\ Len(results) = 2

====
